---- MODULE Spec2Model ----
(***************************************************************************)
(* A model of the scraper backend in src/main.py: the search orchestrator  *)
(* (search_region) with its concurrent source tasks, the HTTP handler that *)
(* fronts it (search_products), the extraction strategies of the sources   *)
(* the price normalizer (_extract_price_from_text) and platform           *)
(* identification (_identify_platform).                                    *)
(*                                                                         *)
(* Text is modelled as a sequence of one-character strings.  Prices are    *)
(* modelled as integers (a number of minor units).                         *)
(***************************************************************************)
EXTENDS Integers, Sequences, FiniteSets, TLC

VARIABLES
    pc,           \* where the request is: "idle", "gather", "done"
    entry,        \* how search_region was entered: "none", "api", "direct"
    region,       \* the region argument
    max_results,  \* the max_results argument
    tasks,        \* search_region's list `tasks`: the source coroutines, in order
    sources,      \* search_region's list `sources`
    tpc,          \* tpc[i]: position of task i inside its source function
    tout,         \* tout[i]: what task i finished with (a list or an exception)
    browser,      \* browser[i]: "none", "open", "closed", "killed"
    launches,     \* how many browsers chromium.launch has started
    order,        \* task indices in the order the tasks finished
    pool,         \* the product names the pages of this search show
    response,     \* what the request produced
    ppc,          \* the price normalizer's call: "off", "call", "done"
    ptext,        \* its argument text
    pcurrency,    \* its argument currency
    presult,      \* what it returned
    xpc,          \* one source's extraction: "off", "jsonld", "html", "scripts",
                  \* "return", "done"
    xsource,      \* the source function and the currency it parses with
    xquota,       \* its max_results
    xpage,        \* what the fetched page holds
    xresults,     \* its list `results`
    xran,         \* the strategies that were run
    fpc,          \* platform identification: "off", "call" or "done"
    fseller,      \* the seller label passed to _identify_platform
    fplatform     \* what _identify_platform returned

vars == <<pc, entry, region, max_results, tasks, sources, tpc, tout, browser,
          launches, order, pool, response, ppc, ptext, pcurrency, presult,
          xpc, xsource, xquota, xpage, xresults, xran,
          fpc, fseller, fplatform>>

orchVars == <<pc, entry, region, max_results, tasks, sources, tpc, tout, browser,
              launches, order, pool, response>>
priceVars == <<ppc, ptext, pcurrency, presult>>
extractVars == <<xpc, xsource, xquota, xpage, xresults, xran>>
platformVars == <<fpc, fseller, fplatform>>

(***************************************************************************)
(* Bounds of the model.                                                    *)
(***************************************************************************)
MaxItems == 2          \* offers a source's page yields at most
MaxResultsBound == 2   \* max_results ranges over 1..MaxResultsBound
MaxTextLen == 3        \* every text up to this length is a normalizer input
MaxPageItems == 2      \* JSON-LD items, cards and script blocks of a page
MaxQuota == 3          \* a source's max_results ranges over 1..MaxQuota

(***************************************************************************)
(* Program constants.                                                      *)
(***************************************************************************)
KeyPrefixLen == 50     \* [:50] of the dedup key

KnownRegions == {"us", "tr", "eu"}
Regions == KnownRegions \cup {"uk"}

(***************************************************************************)
(* Text helpers.                                                           *)
(***************************************************************************)
Min(a, b) == IF a <= b THEN a ELSE b

Rep(c, n) == [i \in 1..n |-> c]

Reverse(s) == [k \in 1..Len(s) |-> s[Len(s) + 1 - k]]

LowerLetters == <<"a", "b", "c", "d", "e", "f", "g", "h", "i", "j", "k", "l", "m",
                  "n", "o", "p", "q", "r", "s", "t", "u", "v", "w", "x", "y", "z">>
UpperLetters == <<"A", "B", "C", "D", "E", "F", "G", "H", "I", "J", "K", "L", "M",
                  "N", "O", "P", "Q", "R", "S", "T", "U", "V", "W", "X", "Y", "Z">>
LowerAlpha == {LowerLetters[i] : i \in 1..Len(LowerLetters)}
UpperAlpha == {UpperLetters[i] : i \in 1..Len(UpperLetters)}
DigitChars == {"0", "1", "2", "3", "4", "5", "6", "7", "8", "9"}

\* str.lower() on one character.  "U+00C7" (C with cedilla) lowers to
\* "U+00E7" and "U+015E" (S with cedilla) to "U+015F"; every other
\* character of the model's alphabet is unchanged.
LowerChar(c) ==
    CASE c \in UpperAlpha ->
             LowerLetters[CHOOSE i \in 1..Len(UpperLetters) : UpperLetters[i] = c]
      [] c = "U+00C7" -> "U+00E7"
      [] c = "U+015E" -> "U+015F"
      [] OTHER -> c

Lower(s) == [i \in 1..Len(s) |-> LowerChar(s[i])]

\* re.sub(r'[^a-z0-9]', '', s): keep only ASCII lower-case letters and digits.
RECURSIVE StripNonAlnum(_)
StripNonAlnum(s) ==
    IF s = <<>> THEN <<>>
    ELSE IF Head(s) \in LowerAlpha \cup DigitChars
         THEN <<Head(s)>> \o StripNonAlnum(Tail(s))
         ELSE StripNonAlnum(Tail(s))

\* s[:n] for n >= 0
Prefix(s, n) == SubSeq(s, 1, Min(n, Len(s)))

\* key = re.sub(r'[^a-z0-9]', '', r.product_name.lower())[:50]
DedupKey(name) == Prefix(StripNonAlnum(Lower(name)), KeyPrefixLen)

(***************************************************************************)
(* Numbers.  A float is modelled as an exact decimal [mant, exp], the      *)
(* value mant / 10^exp, with no trailing zero in the fraction.  An         *)
(* Optional value is a sequence of length at most one: <<>> is None.       *)
(***************************************************************************)
None == <<>>
Some(v) == <<v>>

RECURSIVE Normalize(_)
Normalize(d) ==
    IF d.exp > 0 /\ d.mant % 10 = 0
    THEN Normalize([mant |-> d.mant \div 10, exp |-> d.exp - 1])
    ELSE d

Dec(mant, exp) == Normalize([mant |-> mant, exp |-> exp])

DigitValue(c) ==
    CASE c = "0" -> 0 [] c = "1" -> 1 [] c = "2" -> 2 [] c = "3" -> 3
      [] c = "4" -> 4 [] c = "5" -> 5 [] c = "6" -> 6 [] c = "7" -> 7
      [] c = "8" -> 8 [] c = "9" -> 9

RECURSIVE DigitsToInt(_)
DigitsToInt(s) ==
    IF s = <<>> THEN 0
    ELSE 10 * DigitsToInt(SubSeq(s, 1, Len(s) - 1)) + DigitValue(s[Len(s)])

\* str.replace(c, "") and str.replace(c, d) on one-character strings
RECURSIVE Remove(_, _)
Remove(s, c) ==
    IF s = <<>> THEN <<>>
    ELSE IF Head(s) = c THEN Remove(Tail(s), c)
         ELSE <<Head(s)>> \o Remove(Tail(s), c)

Replace(s, c, d) == [i \in 1..Len(s) |-> IF s[i] = c THEN d ELSE s[i]]

CountOf(s, c) == Cardinality({ i \in 1..Len(s) : s[i] = c })

\* float(s) for a string of digits and dots that has a digit: a value, or
\* None where float raises ValueError (more than one dot)
ParseFloat(s) ==
    IF CountOf(s, ".") > 1 \/ \A i \in 1..Len(s) : s[i] = "." THEN None
    ELSE IF CountOf(s, ".") = 0 THEN Some(Dec(DigitsToInt(s), 0))
    ELSE LET dot == CHOOSE i \in 1..Len(s) : s[i] = "." IN
         Some(Dec(DigitsToInt(Remove(s, ".")), Len(s) - dot))

(***************************************************************************)
(* The regular expressions of _extract_price_from_text.  Each one is       *)
(*    SYM \s* ( \d{1,3} (?:SEP\d{3})* (?:DEC\d{2})? )        "prefix"      *)
(* or ( \d{1,3} (?:SEP\d{3})* (?:DEC\d{2})? ) \s* SYM        "suffix"      *)
(* and re.search returns the leftmost match, each quantifier greedy.       *)
(***************************************************************************)
EuroSign == "U+20AC"
LiraSign == "U+20BA"

IsDigit(c) == c \in DigitChars
IsSpace(c) == c = " "

DigitAt(t, i) == i >= 1 /\ i <= Len(t) /\ IsDigit(t[i])

\* how many of the characters from position i on are digits, up to three
DigitRun(t, i) ==
    IF ~DigitAt(t, i) THEN 0
    ELSE IF ~DigitAt(t, i + 1) THEN 1
    ELSE IF ~DigitAt(t, i + 2) THEN 2
    ELSE 3

\* how many SEP\d{3} groups stand in a row from position i on
RECURSIVE GroupsAt(_, _, _)
GroupsAt(t, i, sep) ==
    IF i <= Len(t) /\ t[i] = sep /\ DigitRun(t, i + 1) = 3
    THEN 1 + GroupsAt(t, i + 4, sep)
    ELSE 0

DecimalsAt(t, i, dec) ==
    i <= Len(t) /\ t[i] = dec /\ DigitAt(t, i + 1) /\ DigitAt(t, i + 2)

RECURSIVE SkipSpaces(_, _)
SkipSpaces(t, i) ==
    IF i <= Len(t) /\ IsSpace(t[i]) THEN SkipSpaces(t, i + 1) ELSE i

SymAt(t, i, sym) ==
    /\ i >= 1 /\ i + Len(sym) - 1 <= Len(t)
    /\ SubSeq(t, i, i + Len(sym) - 1) = sym

\* one past the end of the number that starts at i with d leading digits,
\* k groups and, if h, a decimal part
NumberEnd(i, d, k, h) == i + d + 4 * k + (IF h THEN 3 ELSE 0)

\* the ways the number part can match from position i
NumberMatches(t, i, sep, dec) ==
    { m \in [d : 1..3, k : 0..(Len(t) \div 4), h : BOOLEAN] :
        /\ m.d <= DigitRun(t, i)
        /\ m.k <= GroupsAt(t, i + m.d, sep)
        /\ m.h => DecimalsAt(t, i + m.d + 4 * m.k, dec) }

\* the backtracking order: more digits first, then more groups, then the
\* decimal part before its absence
Preferred(m, n) ==
    \/ m.d > n.d
    \/ m.d = n.d /\ m.k > n.k
    \/ m.d = n.d /\ m.k = n.k /\ (m.h \/ ~n.h)

First(ms) == CHOOSE m \in ms : \A n \in ms : Preferred(m, n)

\* re.search of a prefix pattern: the captured group, or None
SearchPrefix(t, pat) ==
    LET starts == { s \in 1..Len(t) :
                      SymAt(t, s, pat.sym)
                      /\ DigitAt(t, SkipSpaces(t, s + Len(pat.sym))) }
    IN IF starts = {} THEN None
       ELSE LET s == CHOOSE x \in starts : \A y \in starts : x <= y
                i == SkipSpaces(t, s + Len(pat.sym))
                m == First(NumberMatches(t, i, pat.sep, pat.dec))
            IN Some(SubSeq(t, i, NumberEnd(i, m.d, m.k, m.h) - 1))

\* re.search of a suffix pattern: the captured group, or None
SuffixMatches(t, i, pat) ==
    { m \in NumberMatches(t, i, pat.sep, pat.dec) :
        SymAt(t, SkipSpaces(t, NumberEnd(i, m.d, m.k, m.h)), pat.sym) }

SearchSuffix(t, pat) ==
    LET starts == { i \in 1..Len(t) : SuffixMatches(t, i, pat) # {} }
    IN IF starts = {} THEN None
       ELSE LET i == CHOOSE x \in starts : \A y \in starts : x <= y
                m == First(SuffixMatches(t, i, pat))
            IN Some(SubSeq(t, i, NumberEnd(i, m.d, m.k, m.h) - 1))

Search(t, pat) ==
    IF pat.kind = "prefix" THEN SearchPrefix(t, pat) ELSE SearchSuffix(t, pat)

\* the list `patterns`
patterns ==
    << [kind |-> "prefix", sym |-> <<"$">>, sep |-> ",", dec |-> "."],
       [kind |-> "suffix", sym |-> <<"$">>, sep |-> ",", dec |-> "."],
       [kind |-> "prefix", sym |-> <<EuroSign>>, sep |-> ".", dec |-> ","],
       [kind |-> "suffix", sym |-> <<EuroSign>>, sep |-> ".", dec |-> ","],
       [kind |-> "suffix", sym |-> <<"T", "L">>, sep |-> ".", dec |-> ","],
       [kind |-> "prefix", sym |-> <<LiraSign>>, sep |-> ".", dec |-> ","] >>

CommaDecimalCurrencies == {EuroSign, LiraSign, "TL", "TRY"}

\* the body of the `if m:` branch up to the float
PriceString(group, currency) ==
    IF currency \in CommaDecimalCurrencies
    THEN Replace(Remove(group, "."), ",", ".")
    ELSE Remove(group, ",")

\* for pattern in patterns: ... return float(price_str), or continue
RECURSIVE ExtractFrom(_, _, _)
ExtractFrom(text, currency, k) ==
    IF k > Len(patterns) THEN None
    ELSE LET m == Search(text, patterns[k]) IN
         IF m = None THEN ExtractFrom(text, currency, k + 1)
         ELSE LET v == ParseFloat(PriceString(m[1], currency)) IN
              IF v = None THEN ExtractFrom(text, currency, k + 1) ELSE v

\* _extract_price_from_text(text, currency="$")
extract_price_from_text(text, currency) ==
    IF text = <<>> THEN None ELSE ExtractFrom(text, currency, 1)

(***************************************************************************)
(* JSON-LD values and the structured-data strategy.                        *)
(***************************************************************************)
\* a JSON scalar: null, a number or a string
JsonNull == [t |-> "null", v |-> [mant |-> 0, exp |-> 0], s |-> <<>>]
JsonNum(mant, exp) == [t |-> "num", v |-> Dec(mant, exp), s |-> <<>>]
JsonStr(text) == [t |-> "str", v |-> [mant |-> 0, exp |-> 0], s |-> text]

\* float(s) for a string: an optional sign, digits and at most one dot.
\* (float also reads exponents, "nan" and "inf"; such strings are outside
\* the model.)
PyFloat(s) ==
    LET neg == s # <<>> /\ Head(s) = "-"
        body == IF neg THEN Tail(s) ELSE s
    IN IF body = <<>> \/ \E i \in 1..Len(body) : ~(IsDigit(body[i]) \/ body[i] = ".")
       THEN None
       ELSE LET v == ParseFloat(body) IN
            IF v = None THEN None
            ELSE IF neg THEN Some([mant |-> 0 - v[1].mant, exp |-> v[1].exp]) ELSE v

\* _safe_float(val)
safe_float(val) ==
    CASE val.t = "null" -> None
      [] val.t = "num" -> Some(val.v)
      [] OTHER -> PyFloat(Remove(Remove(val.s, ","), " "))

\* Python truth of an Optional float: None and 0.0 are false
Truthy(opt) == opt # None /\ opt[1].mant # 0

\* a or b
Or(a, b) == IF Truthy(a) THEN a ELSE b

Pow10(n) == IF n = 0 THEN 1 ELSE IF n = 1 THEN 10 ELSE IF n = 2 THEN 100
            ELSE IF n = 3 THEN 1000 ELSE IF n = 4 THEN 10000 ELSE 100000

DecLess(a, b) == a.mant * Pow10(b.exp) < b.mant * Pow10(a.exp)

\* _get_offer_price(offer)
get_offer_price(offer) ==
    IF ~offer.is_dict THEN None
    ELSE Or(safe_float(offer.price), safe_float(offer.lowPrice))

OutOfStock == "https://schema.org/OutOfStock"
InStockUrl == "https://schema.org/InStock"

\* "OutOfStock" not in avail if avail else True
InStock(avail) == avail # OutOfStock

\* offer.get("url", url): the offer's url, or the one held so far
UrlOr(offer, url) == IF offer.url = None THEN url ELSE offer.url[1]

\* the assignments made when an offer of the list becomes the best so far
TakeOffer(offer, p, best) ==
    [price |-> Some(p), seller |-> offer.seller, url |-> UrlOr(offer, best.url),
     in_stock |-> InStock(offer.availability)]

\* for offer in offers: if p and (best is None or p < best): ...
RECURSIVE LowestOffer(_, _)
LowestOffer(offers, best) ==
    IF offers = <<>> THEN best
    ELSE LET p == get_offer_price(Head(offers)) IN
         IF Truthy(p) /\ (best.price = None \/ DecLess(p[1], best.price[1]))
         THEN LowestOffer(Tail(offers), TakeOffer(Head(offers), p[1], best))
         ELSE LowestOffer(Tail(offers), best)

ExtractedResult(name, price, seller, url, in_stock, strategy) ==
    [product_name |-> name, price |-> price, seller |-> seller, url |-> url,
     in_stock |-> in_stock, strategy |-> strategy]

\* _parse_jsonld_product(product, ...): <<>> for None, else <<PriceResult>>
parse_jsonld_product(product) ==
    IF ~product.is_dict THEN <<>>
    ELSE IF Len(product.name) < 3 THEN <<>>
    ELSE LET none == [price |-> None, seller |-> "", url |-> product.url,
                      in_stock |-> TRUE]
             got ==
               CASE product.offers_type = "list" -> LowestOffer(product.offers, none)
                 [] product.offers_type = "AggregateOffer" ->
                      [none EXCEPT !.price =
                          IF Truthy(safe_float(product.offers[1].lowPrice))
                          THEN safe_float(product.offers[1].lowPrice)
                          ELSE safe_float(product.offers[1].price)]
                 [] product.offers_type = "Offer" ->
                      [price |-> get_offer_price(product.offers[1]),
                       seller |-> product.offers[1].seller,
                       url |-> UrlOr(product.offers[1], product.url),
                       in_stock |-> InStock(product.offers[1].availability)]
                 [] OTHER -> none
         IN IF ~Truthy(got.price) \/ got.price[1].mant <= 0 THEN <<>>
            ELSE <<ExtractedResult(product.name, got.price[1], got.seller, got.url,
                                   got.in_stock, "structured-data")>>

\* the loop over itemListElement: an element that is not a dict raises, and
\* the except around the whole item ends the list there
RECURSIVE ItemListResults(_)
ItemListResults(elems) ==
    IF elems = <<>> THEN <<>>
    ELSE IF ~Head(elems).is_dict THEN <<>>
    ELSE parse_jsonld_product(Head(elems).product) \o ItemListResults(Tail(elems))

\* extract_products_from_jsonld(json_ld_items, ...)
RECURSIVE extract_products_from_jsonld(_)
extract_products_from_jsonld(items) ==
    IF items = <<>> THEN <<>>
    ELSE LET item == Head(items)
             here == CASE ~item.is_dict -> <<>>
                       [] item.type = "ItemList" -> ItemListResults(item.elems)
                       [] item.type = "Product" -> parse_jsonld_product(item.product)
                       [] OTHER -> <<>>
         IN here \o extract_products_from_jsonld(Tail(items))

(***************************************************************************)
(* The selector-based and embedded-script strategies.                      *)
(***************************************************************************)
MinNameLen == 3            \* len(name) < 3
AmazonMinNameLen == 5      \* len(name) < 5
MaxScriptPrice == 100000   \* price > 100000
ScriptThreshold == 3       \* if len(results) < 3

\* get_text(strip=True), str.strip(): drop leading and trailing spaces
RECURSIVE LStrip(_)
LStrip(s) == IF s # <<>> /\ IsSpace(Head(s)) THEN LStrip(Tail(s)) ELSE s

Strip(s) == Reverse(LStrip(Reverse(LStrip(s))))

\* Method 2: the first b/span whose text gives a price
RECURSIVE FirstSpanPrice(_, _)
FirstSpanPrice(spans, currency) ==
    IF spans = <<>> THEN None
    ELSE LET p == extract_price_from_text(Strip(Head(spans)), currency) IN
         IF Truthy(p) THEN p ELSE FirstSpanPrice(Tail(spans), currency)

\* one pass of the loop body of _parse_google_shopping_html
google_card(card, currency) ==
    IF card.title = None THEN <<>>
    ELSE IF Len(Strip(card.title[1])) < MinNameLen THEN <<>>
    ELSE LET p1 == IF card.aria = None THEN None
                   ELSE extract_price_from_text(card.aria[1], currency)
             p2 == IF Truthy(p1) THEN p1 ELSE FirstSpanPrice(card.spans, currency)
             p3 == IF Truthy(p2) THEN p2
                   ELSE extract_price_from_text(card.text, currency)
         IN IF ~Truthy(p3) THEN <<>>
            ELSE <<ExtractedResult(Strip(card.title[1]), p3[1], card.seller, card.url,
                                   TRUE, "selector")>>

\* _parse_turkish_price(text)
parse_turkish_price(text) ==
    LET cleaned == SelectSeq(Strip(text), LAMBDA c : IsDigit(c) \/ c \in {".", ","})
    IN IF text = <<>> \/ cleaned = <<>> THEN None
       ELSE PyFloat(Replace(Remove(cleaned, "."), ",", "."))

\* one pass of the loop body of _parse_akakce_html
akakce_card(card) ==
    IF card.title = None THEN <<>>
    ELSE IF Len(Strip(card.title[1])) < MinNameLen THEN <<>>
    ELSE LET p == IF card.price_el = None
                  THEN extract_price_from_text(card.text, "TRY")
                  ELSE parse_turkish_price(Strip(card.price_el[1]))
         IN IF ~Truthy(p) THEN <<>>
            ELSE <<ExtractedResult(Strip(card.title[1]), p[1], card.seller, card.url,
                                   TRUE, "selector")>>

\* one pass of the loop body of _parse_amazon_html
amazon_card(card, currency) ==
    IF card.sponsored THEN <<>>
    ELSE IF card.title = None THEN <<>>
    ELSE IF Len(Strip(card.title[1])) < AmazonMinNameLen THEN <<>>
    ELSE LET p1 == IF card.offscreen = None THEN None
                   ELSE extract_price_from_text(card.offscreen[1], currency)
             w == IF card.whole = None THEN <<>>
                  ELSE Remove(Remove(Strip(card.whole[1]), ","), ".")
             f == IF card.frac = None THEN <<"0", "0">> ELSE Strip(card.frac[1])
             p2 == IF Truthy(p1) \/ card.whole = None THEN p1
                   ELSE LET v == PyFloat(w \o <<".">> \o f) IN
                        IF v = None THEN p1 ELSE v
         IN IF ~Truthy(p2) THEN <<>>
            ELSE <<ExtractedResult(Strip(card.title[1]), p2[1], "", card.url,
                                   TRUE, "selector")>>

\* what the loop body of the source's HTML parser yields for one card
card_results(source, card, currency) ==
    CASE source = "google_shopping" -> google_card(card, currency)
      [] source = "akakce" -> akakce_card(card)
      [] OTHER -> amazon_card(card, currency)

\* for item in items: if len(results) >= max_results: break ...
RECURSIVE parse_html(_, _, _, _, _)
parse_html(source, cards, currency, max, results) ==
    IF cards = <<>> \/ Len(results) >= max THEN results
    ELSE parse_html(source, Tail(cards), currency, max,
                    results \o card_results(source, Head(cards), currency))

\* for i in range(min(len(titles), len(prices), max_results)): ...
RECURSIVE script_block(_, _, _)
script_block(block, n, i) ==
    IF i > n THEN <<>>
    ELSE LET price == ParseFloat(block.prices[i])[1] IN
         (IF price.mant <= 0 \/ DecLess(Dec(MaxScriptPrice, 0), price) THEN <<>>
          ELSE <<ExtractedResult(block.titles[i], price, "", "", TRUE,
                                 "embedded-script")>>)
         \o script_block(block, n, i + 1)

\* _parse_google_shopping_scripts(html, currency, max_results)
RECURSIVE parse_google_shopping_scripts(_, _)
parse_google_shopping_scripts(blocks, max) ==
    IF blocks = <<>> THEN <<>>
    ELSE script_block(Head(blocks),
                      Min(Min(Len(Head(blocks).titles), Len(Head(blocks).prices)), max),
                      1)
         \o parse_google_shopping_scripts(Tail(blocks), max)

\* the loop of Strategy 3: append what no collected offer has the name of,
\* compared after str.lower()
RECURSIVE append_new_names(_, _)
append_new_names(results, found) ==
    IF found = <<>> THEN results
    ELSE IF \E k \in 1..Len(results) :
               Lower(results[k].product_name) = Lower(Head(found).product_name)
         THEN append_new_names(results, Tail(found))
         ELSE append_new_names(Append(results, Head(found)), Tail(found))

(***************************************************************************)
(* Offers (PriceResult): only the fields the orchestrator reads, plus the  *)
(* index of the task that produced the offer.                              *)
(***************************************************************************)
Str_Ab == <<"A", "b">>
Str_a_b == <<"a", "-", "b">>
Str_cd == <<"c", "d">>
\* two names that differ only after the key prefix
Str_long_x == Rep("a", KeyPrefixLen) \o <<"x">>
Str_long_y == Rep("a", KeyPrefixLen) \o <<"y">>

\* two Turkish names, "\u00e7a" and "\u015fa", that differ in their first letter
Str_ca == <<"U+00E7", "a">>
Str_sa == <<"U+015F", "a">>

\* The pages of one search show products of one pool.
NamePools ==
    { {Str_Ab, Str_a_b}, {Str_Ab, Str_cd}, {Str_long_x, Str_long_y}, {Str_ca, Str_sa} }
Prices == {1, 2}

PriceResult(name, price, i) == [product_name |-> name, price |-> price, task |-> i]

SeqsUpTo(S, n) == UNION { [1..k -> S] : k \in 0..n }

\* What a source function can return on its success path: results[:max_results]
SourceOutputs(names, i, m) ==
    SeqsUpTo({ PriceResult(n, p, i) : n \in names, p \in Prices }, Min(m, MaxItems))

(***************************************************************************)
(* search_region, after the gather.                                        *)
(***************************************************************************)
\* What a task finished with.  `failed` records whether the source function
\* raised or went through its except handler; search_region never reads it.
NoOutcome == [kind |-> "none", val |-> <<>>, failed |-> FALSE]
Returned(list) == [kind |-> "list", val |-> list, failed |-> FALSE]
Caught == [kind |-> "list", val |-> <<>>, failed |-> TRUE]
Raised == [kind |-> "exception", val |-> <<>>, failed |-> TRUE]

\* asyncio.gather(*tasks, return_exceptions=True): one entry per task, in the
\* order the tasks were passed, whatever order they finished in; an
\* exception is returned in place, not raised.
gather_propagating(outs, finished) ==
    [raised |-> \E k \in 1..Len(outs) : outs[k].kind = "exception", results |-> outs]

gather_by_completion(outs, finished) ==
    [raised |-> FALSE, results |-> [k \in 1..Len(outs) |-> outs[finished[k]]]]

gather(outs, finished) == [raised |-> FALSE, results |-> outs]

\* for r in results_nested: skip exceptions, extend with lists
RECURSIVE Merge(_)
Merge(nested) ==
    IF nested = <<>> THEN <<>>
    ELSE IF Head(nested).kind = "exception"
         THEN Merge(Tail(nested))
         ELSE Head(nested).val \o Merge(Tail(nested))

\* the seen/unique loop
RECURSIVE DedupFrom(_, _)
DedupFrom(all, seen) ==
    IF all = <<>> THEN <<>>
    ELSE LET key == DedupKey(Head(all).product_name) IN
         IF key \notin seen
         THEN <<Head(all)>> \o DedupFrom(Tail(all), seen \cup {key})
         ELSE DedupFrom(Tail(all), seen)

Dedup_keep_last(all) == Reverse(DedupFrom(Reverse(all), {}))

Dedup(all) == DedupFrom(all, {})

RECURSIVE InsertByPrice_before_ties(_, _)
InsertByPrice_before_ties(sorted, x) ==
    IF sorted = <<>> THEN <<x>>
    ELSE IF Head(sorted).price < x.price
         THEN <<Head(sorted)>> \o InsertByPrice_before_ties(Tail(sorted), x)
         ELSE <<x>> \o sorted

\* list.sort(key=lambda x: x.price): a stable sort, modelled as insertion
\* after the last element whose price is not greater.
RECURSIVE InsertByPrice(_, _)
InsertByPrice(sorted, x) ==
    IF sorted = <<>> THEN <<x>>
    ELSE IF Head(sorted).price <= x.price
         THEN <<Head(sorted)>> \o InsertByPrice(Tail(sorted), x)
         ELSE <<x>> \o sorted

\* a sort that would put the dearest offer first
SortByPrice_descending(s) ==
    LET RECURSIVE Asc(_)
        Asc(t) == IF t = <<>> THEN <<>>
                  ELSE InsertByPrice(Asc(SubSeq(t, 1, Len(t) - 1)), t[Len(t)])
    IN Reverse(Asc(s))

RECURSIVE SortByPrice(_)
SortByPrice(s) ==
    IF s = <<>> THEN <<>>
    ELSE InsertByPrice(SortByPrice(SubSeq(s, 1, Len(s) - 1)), s[Len(s)])

Truncate_one_more(s, m) == Prefix(s, m + 1)

\* unique[:max_results]
Truncate(s, m) == Prefix(s, m)

\* sources for the region
ConfiguredTasks(r) ==
    CASE r = "us" -> <<"search_google_shopping", "search_amazon_us">>
      [] r = "tr" -> <<"search_akakce", "search_cimri">>
      [] r = "eu" -> <<"search_google_shopping">>
      [] OTHER -> <<>>

ConfiguredSources(r) ==
    CASE r = "us" -> <<"google_shopping", "amazon_us">>
      [] r = "tr" -> <<"akakce", "cimri">>
      [] r = "eu" -> <<"google_shopping_eu">>
      [] OTHER -> <<>>

NoResponse == [kind |-> "none", results |-> <<>>, sources_used |-> <<>>]
Http400 == [kind |-> "http_400", results |-> <<>>, sources_used |-> <<>>]
SearchRaised == [kind |-> "exception", results |-> <<>>, sources_used |-> <<>>]

\* search_region from the gather to the return
search_region_return(outs, finished, m, srcs) ==
    LET g == gather(outs, finished) IN
    IF g.raised THEN SearchRaised
    ELSE [kind |-> "ok",
          results |-> Truncate(SortByPrice(Dedup(Merge(g.results))), m),
          sources_used |-> srcs]

(***************************************************************************)
(* The state machine of one request.                                       *)
(***************************************************************************)
TaskIds == 1..Len(tasks)

OrchIdle ==
    /\ pc = "idle"
    /\ entry = "none"
    /\ region = "us"
    /\ max_results = 1
    /\ tasks = <<>>
    /\ sources = <<>>
    /\ tpc = <<>>
    /\ tout = <<>>
    /\ browser = <<>>
    /\ launches = 0
    /\ order = <<>>
    /\ response = NoResponse

NoPage == [jsonld |-> <<>>, cards |-> <<>>, blocks |-> <<>>]

ExtractOff ==
    /\ xpc = "off"
    /\ xsource = [source |-> "google_shopping", currency |-> "$"]
    /\ xquota = 1
    /\ xpage = NoPage
    /\ xresults = <<>>
    /\ xran = {}

PriceOff ==
    /\ ppc = "off"
    /\ ptext = <<>>
    /\ pcurrency = "$"
    /\ presult = None

NoPlatform == [pid |-> "", pname |-> <<>>]

PlatformOff ==
    /\ fpc = "off"
    /\ fseller = None
    /\ fplatform = NoPlatform

Init ==
    /\ OrchIdle
    /\ pool \in NamePools
    /\ PriceOff
    /\ ExtractOff
    /\ PlatformOff

\* search_region up to the gather: build tasks and sources
StartRegion(r, m, how) ==
    /\ pc' = "gather"
    /\ entry' = how
    /\ region' = r
    /\ max_results' = m
    /\ tasks' = ConfiguredTasks(r)
    /\ sources' = ConfiguredSources(r)
    /\ tpc' = [i \in 1..Len(ConfiguredTasks(r)) |-> "start"]
    /\ tout' = [i \in 1..Len(ConfiguredTasks(r)) |-> NoOutcome]
    /\ browser' = [i \in 1..Len(ConfiguredTasks(r)) |-> "none"]
    /\ UNCHANGED <<launches, order, pool, response>>
    /\ UNCHANGED <<priceVars, extractVars, platformVars>>

\* GET /api/search: the region check, then search_region
search_products(r, m) ==
    /\ pc = "idle"
    /\ IF r \notin KnownRegions
       THEN /\ pc' = "done"
            /\ entry' = "api"
            /\ region' = r
            /\ max_results' = m
            /\ response' = Http400
            /\ UNCHANGED <<tasks, sources, tpc, tout, browser, launches, order, pool>>
            /\ UNCHANGED <<priceVars, extractVars, platformVars>>
       ELSE StartRegion(r, m, "api")

\* search_region called as the orchestrator's entry point
search_region(r, m) ==
    /\ pc = "idle"
    /\ StartRegion(r, m, "direct")

\* A task finishes: its result is recorded and its browser slot updated
Finish(i, outcome, b) ==
    /\ tpc' = [tpc EXCEPT ![i] = "done"]
    /\ tout' = [tout EXCEPT ![i] = outcome]
    /\ browser' = [browser EXCEPT ![i] = b]
    /\ order' = Append(order, i)
    /\ UNCHANGED <<pc, entry, region, max_results, tasks, sources, launches, pool,
                   response>>
    /\ UNCHANGED <<priceVars, extractVars, platformVars>>

Step(i, to, b, n) ==
    /\ tpc' = [tpc EXCEPT ![i] = to]
    /\ browser' = [browser EXCEPT ![i] = b]
    /\ launches' = n
    /\ UNCHANGED <<pc, entry, region, max_results, tasks, sources, tout, order,
                   pool, response>>
    /\ UNCHANGED <<priceVars, extractVars, platformVars>>

Advance(i, to, b) == Step(i, to, b, launches)

\* the imports at the top of the source function, outside its try
ImportFail(i) ==
    /\ pc = "gather" /\ tpc[i] = "start"
    /\ Finish(i, Raised, "none")

\* try: async with async_playwright(): create_stealth_browser(...)
Launch(i) ==
    /\ pc = "gather" /\ tpc[i] = "start"
    /\ Advance(i, "launch", "none")

\* create_stealth_browser returns the browser it launched and its page
LaunchOk(i) ==
    /\ pc = "gather" /\ tpc[i] = "launch"
    /\ Step(i, "goto", "open", launches + 1)

\* stealth_navigate: page.goto(url, timeout=timeout)
GotoOk(i) ==
    /\ pc = "gather" /\ tpc[i] = "goto"
    /\ Advance(i, "selector", "open")

\* a source that would launch playwright without the async with, so that
\* nothing ends the browser when the navigation raises
GotoTimeout_leaving_open(i) ==
    /\ pc = "gather" /\ tpc[i] = "goto"
    /\ Finish(i, Caught, "open")

\* page.goto exceeds its 25000 ms: TimeoutError, caught by the source's except
\* after the async with has stopped playwright and, with it, the browser
GotoTimeout(i) ==
    /\ pc = "gather" /\ tpc[i] = "goto"
    /\ Finish(i, Caught, "killed")

\* page.wait_for_selector(wait_for, timeout=8000), or its except: sleep(2)
SelectorDone(i) ==
    /\ pc = "gather" /\ tpc[i] = "selector"
    /\ Advance(i, "evaluate", "open")

\* page.evaluate(...)
EvaluateOk(i) ==
    /\ pc = "gather" /\ tpc[i] = "evaluate"
    /\ Advance(i, "content", "open")

\* page.content()
ContentOk(i) ==
    /\ pc = "gather" /\ tpc[i] = "content"
    /\ Advance(i, "close", "open")

\* page.evaluate and page.content are awaited with no timeout: a call that
\* never completes leaves the task suspended for good
Hang(i) ==
    /\ pc = "gather" /\ tpc[i] \in {"evaluate", "content"}
    /\ Advance(i, "hung", "open")

\* a source whose except clause would re-raise what it caught
StepFail_propagating(i) ==
    /\ pc = "gather" /\ tpc[i] \in {"launch", "goto", "evaluate", "content", "close"}
    /\ Finish(i, Raised, IF tpc[i] = "launch" THEN "none" ELSE "killed")

\* an await inside the try raises: except Exception: return []
\* (leaving the async with stops playwright, which ends the browser)
StepFail(i) ==
    /\ pc = "gather" /\ tpc[i] \in {"launch", "goto", "evaluate", "content", "close"}
    /\ Finish(i, Caught, IF tpc[i] = "launch" THEN "none" ELSE "killed")

\* browser.close() returns and a strategy then raises (BeautifulSoup on the
\* page, or a call on a field of an unexpected type): except Exception:
\* return []
ExtractFail(i) ==
    /\ pc = "gather" /\ tpc[i] = "close"
    /\ Finish(i, Caught, "closed")

\* browser.close(), the strategies, return results[:max_results]
CloseAndExtract(i) ==
    /\ pc = "gather" /\ tpc[i] = "close"
    /\ \E out \in SourceOutputs(pool, i, max_results) :
          Finish(i, Returned(out), "closed")

\* the gather completes once every task has finished
GatherReturn ==
    /\ pc = "gather"
    /\ \A i \in TaskIds : tpc[i] = "done"
    /\ pc' = "done"
    /\ response' = search_region_return(tout, order, max_results, sources)
    /\ UNCHANGED <<entry, region, max_results, tasks, sources, tpc, tout, browser,
                   launches, order, pool>>
    /\ UNCHANGED <<priceVars, extractVars, platformVars>>

Next ==
    \/ \E r \in Regions, m \in 1..MaxResultsBound : search_products(r, m)
    \/ \E r \in Regions, m \in 1..MaxResultsBound : search_region(r, m)
    \/ \E i \in TaskIds : ImportFail(i)
    \/ \E i \in TaskIds : Launch(i)
    \/ \E i \in TaskIds : LaunchOk(i)
    \/ \E i \in TaskIds : GotoOk(i)
    \/ \E i \in TaskIds : GotoTimeout(i)
    \/ \E i \in TaskIds : SelectorDone(i)
    \/ \E i \in TaskIds : EvaluateOk(i)
    \/ \E i \in TaskIds : ContentOk(i)
    \/ \E i \in TaskIds : Hang(i)
    \/ \E i \in TaskIds : StepFail(i)
    \/ \E i \in TaskIds : ExtractFail(i)
    \/ \E i \in TaskIds : CloseAndExtract(i)
    \/ GatherReturn

Spec == Init /\ [][Next]_vars

(***************************************************************************)
(* The price normalizer, called on its own.                                *)
(***************************************************************************)
PriceAlphabet == {"0", "1", "9", ",", ".", "$"}

SampleTexts ==
    { <<"$", "1", ",", "0", "4", "9", ".", "9", "9">>,
      <<"1", ".", "0", "4", "9", ",", "9", "9">>,
      <<"4", "9", ",", "9", "9">>,
      <<"1", ",", "0", "4", "9">>,
      <<EuroSign, "1", ".", "0", "4", "9", ",", "9", "9">>,
      <<"4", "2", ".", "9", "9", "9", ",", "0", "0", " ", "T", "L">>,
      <<LiraSign, "4", "2", ".", "9", "9", "9", ",", "0", "0">>,
      <<"$", "0", ".", "0", "0">>,
      <<"1", ",", "0", "4", "9", ".", "9", "9", " ", "$">>,
      <<"a", "b", "c">> }

PriceTexts == SampleTexts \cup SeqsUpTo(PriceAlphabet, MaxTextLen)

\* the currency arguments the callers pass, "$" being the default
Currencies == {"$", EuroSign, LiraSign, "TRY"}

PriceInit ==
    /\ OrchIdle
    /\ pool = {Str_Ab, Str_cd}
    /\ ppc = "call"
    /\ ptext \in PriceTexts
    /\ pcurrency \in Currencies
    /\ presult = None
    /\ ExtractOff
    /\ PlatformOff

ExtractPrice ==
    /\ ppc = "call"
    /\ ppc' = "done"
    /\ presult' = extract_price_from_text(ptext, pcurrency)
    /\ UNCHANGED <<ptext, pcurrency>>
    /\ UNCHANGED <<orchVars, extractVars, platformVars>>

PriceNext == ExtractPrice

PriceSpec == PriceInit /\ [][PriceNext]_vars

(***************************************************************************)
(* Platform identification, called on its own.                             *)
(***************************************************************************)
\* the dict `mappings`, in insertion order
mappings ==
    << [key |-> <<"a", "m", "a", "z", "o", "n">>, pid |-> "amazon_us",
        pname |-> <<"A", "m", "a", "z", "o", "n">>],
       [key |-> <<"w", "a", "l", "m", "a", "r", "t">>, pid |-> "walmart",
        pname |-> <<"W", "a", "l", "m", "a", "r", "t">>],
       [key |-> <<"b", "e", "s", "t", " ", "b", "u", "y">>, pid |-> "bestbuy",
        pname |-> <<"B", "e", "s", "t", " ", "B", "u", "y">>],
       [key |-> <<"b", "e", "s", "t", "b", "u", "y">>, pid |-> "bestbuy",
        pname |-> <<"B", "e", "s", "t", " ", "B", "u", "y">>],
       [key |-> <<"t", "a", "r", "g", "e", "t">>, pid |-> "target",
        pname |-> <<"T", "a", "r", "g", "e", "t">>],
       [key |-> <<"e", "b", "a", "y">>, pid |-> "ebay",
        pname |-> <<"e", "B", "a", "y">>],
       [key |-> <<"n", "e", "w", "e", "g", "g">>, pid |-> "newegg",
        pname |-> <<"N", "e", "w", "e", "g", "g">>],
       [key |-> <<"b", "&", "h">>, pid |-> "bh",
        pname |-> <<"B", "&", "H", " ", "P", "h", "o", "t", "o">>],
       [key |-> <<"t", "r", "e", "n", "d", "y", "o", "l">>, pid |-> "trendyol",
        pname |-> <<"T", "r", "e", "n", "d", "y", "o", "l">>],
       [key |-> <<"h", "e", "p", "s", "i", "b", "u", "r", "a", "d", "a">>, pid |-> "hepsiburada",
        pname |-> <<"H", "e", "p", "s", "i", "b", "u", "r", "a", "d", "a">>],
       [key |-> <<"n", "1", "1">>, pid |-> "n11",
        pname |-> <<"n", "1", "1">>],
       [key |-> <<"m", "e", "d", "i", "a", "m", "a", "r", "k", "t">>, pid |-> "mediamarkt",
        pname |-> <<"M", "e", "d", "i", "a", "M", "a", "r", "k", "t">>],
       [key |-> <<"s", "a", "t", "u", "r", "n">>, pid |-> "saturn",
        pname |-> <<"S", "a", "t", "u", "r", "n">>] >>

Unknown == [pid |-> "unknown", pname |-> <<"U", "n", "k", "n", "o", "w", "n">>]

\* key in s
Contains(s, key) ==
    \E i \in 1..(Len(s) - Len(key) + 1) : SubSeq(s, i, i + Len(key) - 1) = key

\* for key, (pid, pname) in mappings.items(): if key in s: return pid, pname
RECURSIVE FirstMapping(_, _)
FirstMapping(s, k) ==
    IF k > Len(mappings) THEN None
    ELSE IF Contains(s, mappings[k].key) THEN Some(mappings[k])
    ELSE FirstMapping(s, k + 1)

\* a loop that would let the last matching key win
MatchingEntry_last(s) ==
    LET hits == {k \in 1..Len(mappings) : Contains(s, mappings[k].key)}
    IN IF hits = {} THEN None
       ELSE Some(mappings[CHOOSE k \in hits : \A h \in hits : h <= k])

MatchingEntry(s) == FirstMapping(s, 1)

\* _identify_platform(seller, region); seller is None or Some(text)
identify_platform(seller) ==
    IF seller = None \/ seller[1] = <<>> THEN Unknown
    ELSE LET m == MatchingEntry(Lower(seller[1])) IN
         IF m = None THEN [pid |-> "other", pname |-> seller[1]]
         ELSE [pid |-> m[1].pid, pname |-> m[1].pname]

MaxSellerLen == 3

SellerAlphabet == {"n", "N", "1", "b", "B", "&", "h", " "}

S_SoldByBestBuy == <<"S", "o", "l", "d", " ", "b", "y", " ", "B", "e", "s", "t", " ", "B", "u", "y">>
S_JoesHardware == <<"J", "o", "e", "'", "s", " ", "H", "a", "r", "d", "w", "a", "r", "e">>
S_n11_bh == <<"n", "1", "1", " ", "b", "&", "h">>
S_WalmartViaAmazon == <<"W", "a", "l", "m", "a", "r", "t", " ", "v", "i", "a", " ", "A", "m", "a", "z", "o", "n">>
S_BESTBUY == <<"B", "E", "S", "T", "B", "U", "Y">>
S_eBayTarget == <<"e", "B", "a", "y", " ", "T", "a", "r", "g", "e", "t">>
S_MediaMarktSaturn == <<"M", "e", "d", "i", "a", "M", "a", "r", "k", "t", " ", "S", "a", "t", "u", "r", "n">>
S_Trendyol == <<"T", "r", "e", "n", "d", "y", "o", "l">>
S_HepsiBurada == <<"H", "e", "p", "s", "i", "B", "u", "r", "a", "d", "a">>
S_NewEgg == <<"N", "e", "w", "E", "g", "g">>
S_Blank == <<" ">>

SampleSellers ==
    { S_SoldByBestBuy, S_JoesHardware, S_n11_bh, S_WalmartViaAmazon, S_BESTBUY, S_eBayTarget, S_MediaMarktSaturn, S_Trendyol, S_HepsiBurada, S_NewEgg, S_Blank }

Sellers ==
    {None} \cup {Some(t) : t \in SampleSellers \cup SeqsUpTo(SellerAlphabet, MaxSellerLen)}

PlatformInit ==
    /\ OrchIdle
    /\ pool = {Str_Ab, Str_cd}
    /\ PriceOff
    /\ ExtractOff
    /\ fpc = "call"
    /\ fseller \in Sellers
    /\ fplatform = NoPlatform

IdentifyPlatform ==
    /\ fpc = "call"
    /\ fpc' = "done"
    /\ fplatform' = identify_platform(fseller)
    /\ UNCHANGED fseller
    /\ UNCHANGED <<orchVars, priceVars, extractVars>>

PlatformNext == IdentifyPlatform

PlatformSpec == PlatformInit /\ [][PlatformNext]_vars

(***************************************************************************)
(* One source's extraction run, from the fetched page to the return.       *)
(***************************************************************************)
T_abc == <<"a", "b", "c">>
T_ABC == <<"A", "B", "C">>
T_ab == <<"a", "b">>
T_pad == <<" ", "a", " ">>
T_abcde == <<"a", "b", "c", "d", "e">>

AnOffer(price, seller, url, availability) ==
    [is_dict |-> TRUE, price |-> price, lowPrice |-> JsonNull, seller |-> seller,
     url |-> url, availability |-> availability]

AProduct(name, offers_type, offers) ==
    [is_dict |-> TRUE, name |-> name, url |-> "product-url",
     offers_type |-> offers_type, offers |-> offers]

NotAProduct == [is_dict |-> FALSE, name |-> <<>>, url |-> "",
                offers_type |-> "none", offers |-> <<>>]

Priced(name, price) ==
    AProduct(name, "Offer", <<AnOffer(price, "seller-1", Some("offer-url-1"), InStockUrl)>>)

ProductItem(product) ==
    [is_dict |-> TRUE, type |-> "Product", product |-> product, elems |-> <<>>]

ItemList(elems) ==
    [is_dict |-> TRUE, type |-> "ItemList", product |-> NotAProduct, elems |-> elems]

NotAnItem ==
    [is_dict |-> FALSE, type |-> "", product |-> NotAProduct, elems |-> <<>>]

Elem(product) == [is_dict |-> TRUE, product |-> product]
NotAnElem == [is_dict |-> FALSE, product |-> NotAProduct]

\* the JSON-LD items a page is built from
JsonItems ==
    { ProductItem(Priced(T_abc, JsonNum(5, 0))),
      ProductItem(Priced(T_ab, JsonNum(5, 0))),
      ProductItem(Priced(T_pad, JsonNum(5, 0))),
      ProductItem(Priced(T_abcde, JsonNum(0, 0))),
      ProductItem(Priced(T_abcde, JsonStr(<<"1", ",", "0", "4", "9", ".", "5">>))),
      ProductItem(AProduct(T_abcde, "list",
          << AnOffer(JsonNum(7, 0), "seller-1", Some("offer-url-1"), InStockUrl),
             AnOffer(JsonNum(3, 0), "seller-2", None, OutOfStock) >>)),
      ProductItem(AProduct(T_abcde, "list",
          << AnOffer(JsonNum(0 - 1, 0), "seller-1", Some("offer-url-1"), InStockUrl),
             AnOffer(JsonNum(3, 0), "seller-2", Some("offer-url-2"), InStockUrl) >>)),
      ItemList(<< Elem(Priced(T_abc, JsonNum(2, 0))), NotAnElem,
                  Elem(Priced(T_abcde, JsonNum(4, 0))) >>),
      NotAnItem }

GoogleCard(title, aria, spans, text) ==
    [title |-> title, aria |-> aria, spans |-> spans, text |-> text,
     seller |-> "Best Buy", url |-> "card-url"]

GoogleCards ==
    { GoogleCard(Some(T_abc), None, <<>>, <<"a", "b", "c", " ", "$", "5">>),
      GoogleCard(Some(<<"a", "b", " ">>), None, <<>>, <<"$", "5">>),
      GoogleCard(Some(T_abcde), Some(<<"$", "0">>), << <<"x">>, <<"$", "9">> >>,
                 <<"$", "9">>),
      GoogleCard(Some(T_abcde), None, <<>>, <<"$", "0", ".", "0", "0">>),
      GoogleCard(None, None, <<>>, <<"$", "5">>) }

AkakceCard(title, price_el, text) ==
    [title |-> title, price_el |-> price_el, text |-> text, seller |-> "",
     url |-> "card-url"]

AkakceCards ==
    { AkakceCard(Some(T_abc), Some(<<"1", ".", "0", "4", "9", ",", "9", "9", " ", "T", "L">>),
                 <<>>),
      AkakceCard(Some(T_abcde), None, <<"4", "2", ".", "9", "9", "9", ",", "0", "0", " ", "T", "L">>),
      AkakceCard(Some(T_abcde), Some(<<"0", ",", "0", "0">>), <<>>),
      AkakceCard(Some(T_ab), Some(<<"5">>), <<>>),
      AkakceCard(None, Some(<<"5">>), <<>>) }

AmazonCard(sponsored, title, offscreen, whole, frac) ==
    [sponsored |-> sponsored, title |-> title, offscreen |-> offscreen,
     whole |-> whole, frac |-> frac, url |-> "card-url"]

AmazonCards ==
    { AmazonCard(FALSE, Some(T_abcde), Some(<<"$", "5", ".", "9", "9">>), None, None),
      AmazonCard(FALSE, Some(T_abc), Some(<<"$", "5">>), None, None),
      AmazonCard(TRUE, Some(T_abcde), Some(<<"$", "5">>), None, None),
      AmazonCard(FALSE, Some(T_abcde), None, Some(<<"1", ",", "0", "4", "9", ".">>),
                 Some(<<"9", "9">>)),
      AmazonCard(FALSE, Some(T_abcde), None, Some(<<"-", "5">>), None),
      AmazonCard(FALSE, Some(T_abcde), None, None, None) }

ScriptBlock(titles, prices) == [titles |-> titles, prices |-> prices]

ScriptBlocks ==
    { ScriptBlock(<<T_ab>>, <<<<"5">>>>),
      ScriptBlock(<<T_ABC, T_abcde>>, <<<<"7", ".", "5">>, <<"0">>, <<"3">>>>),
      ScriptBlock(<<T_abc, <<"x", "y", "a", "b">>>>, <<<<"6">>, <<"8">>>>) }

SourceRuns ==
    { [source |-> "google_shopping", currency |-> "$"],
      [source |-> "google_shopping", currency |-> EuroSign],
      [source |-> "akakce", currency |-> "TRY"],
      [source |-> "amazon_us", currency |-> "$"] }

CardsOf(source) ==
    CASE source = "google_shopping" -> GoogleCards
      [] source = "akakce" -> AkakceCards
      [] OTHER -> AmazonCards

BlocksOf(source) == IF source = "google_shopping" THEN ScriptBlocks ELSE {}

\* every page with at most MaxPageItems items, cards and blocks in all
PagesOf(source) ==
    UNION { { [jsonld |-> j, cards |-> c, blocks |-> b] :
                j \in [1..n.j -> JsonItems],
                c \in [1..n.c -> CardsOf(source)],
                b \in [1..n.b -> BlocksOf(source)] } :
            n \in { m \in [j : 0..MaxPageItems, c : 0..MaxPageItems,
                           b : 0..MaxPageItems] : m.j + m.c + m.b <= MaxPageItems } }

ExtractInit ==
    /\ OrchIdle
    /\ pool = {Str_Ab, Str_cd}
    /\ PriceOff
    /\ xpc = "jsonld"
    /\ xsource \in SourceRuns
    /\ xquota \in 1..MaxQuota
    /\ xpage \in PagesOf(xsource.source)
    /\ xresults = <<>>
    /\ xran = {}
    /\ PlatformOff

XStep(to, results, ran) ==
    /\ xpc' = to
    /\ xresults' = results
    /\ xran' = ran
    /\ UNCHANGED <<xsource, xquota, xpage>>
    /\ UNCHANGED <<orchVars, priceVars, platformVars>>

\* Strategy 1: JSON-LD
StrategyJsonLd ==
    /\ xpc = "jsonld"
    /\ XStep("html", extract_products_from_jsonld(xpage.jsonld),
             xran \cup {"structured-data"})

\* Strategy 2: HTML parsing, if len(results) < max_results
StrategyHtml ==
    /\ xpc = "html"
    /\ LET to == IF xsource.source = "google_shopping" THEN "scripts" ELSE "return"
       IN IF Len(xresults) < xquota
          THEN XStep(to,
                     xresults \o parse_html(xsource.source, xpage.cards,
                                            xsource.currency,
                                            xquota - Len(xresults), <<>>),
                     xran \cup {"selector"})
          ELSE XStep(to, xresults, xran)

\* Strategy 3 of search_google_shopping: inline scripts, if len(results) < 3
StrategyScripts ==
    /\ xpc = "scripts"
    /\ IF Len(xresults) < ScriptThreshold
       THEN XStep("return",
                  append_new_names(xresults,
                      parse_google_shopping_scripts(xpage.blocks, xquota)),
                  xran \cup {"embedded-script"})
       ELSE XStep("return", xresults, xran)

\* return results[:max_results]
ReturnResults ==
    /\ xpc = "return"
    /\ XStep("done", Prefix(xresults, xquota), xran)

ExtractNext ==
    \/ StrategyJsonLd
    \/ StrategyHtml
    \/ StrategyScripts
    \/ ReturnResults

ExtractSpec == ExtractInit /\ [][ExtractNext]_vars

\* The event loop runs whatever can run, and a timed wait ends.
LiveSpec == Init /\ [][Next]_vars /\ WF_vars(Next)

(***************************************************************************)
(* Properties of the orchestrator.                                         *)
(***************************************************************************)
Returns == pc = "done" /\ response.kind # "http_400"

\* the offers of task i as the orchestrator is meant to see them
Contribution(i) == IF tout[i].failed THEN <<>> ELSE tout[i].val

RECURSIVE ContributionsUpTo(_)
ContributionsUpTo(n) ==
    IF n = 0 THEN <<>> ELSE ContributionsUpTo(n - 1) \o Contribution(n)

Merged == ContributionsUpTo(Len(tasks))

KeyOf(r) == DedupKey(r.product_name)

\* index of the first offer of s with the key of r
FirstWithKey(s, r) ==
    CHOOSE k \in 1..Len(s) :
        /\ KeyOf(s[k]) = KeyOf(r)
        /\ \A j \in 1..(k - 1) : KeyOf(s[j]) # KeyOf(r)

\* C1: whichever sources raise or fail, search_region returns without
\* raising, and its offers are the dedupe/sort/truncate of the offers of the
\* sources that did not fail; with every source failing the result is empty.
C1_ErrorIsolation ==
    Returns =>
        /\ response.kind = "ok"
        /\ response.results = Truncate(SortByPrice(Dedup(Merged)), max_results)
        /\ (\A i \in TaskIds : tout[i].failed) => response.results = <<>>

C1_Witness ==
    /\ Returns
    /\ \E i \in TaskIds : tout[i].kind = "exception"
    /\ \E i \in TaskIds : tout[i].failed /\ tout[i].kind = "list"
    /\ response.results = <<>>

C1_WitnessPartial ==
    /\ Returns
    /\ \E i, j \in TaskIds :
          /\ tout[i].kind = "exception"
          /\ tout[j].val # <<>>
          /\ response.results # <<>>

\* C2: "sources used" lists exactly the sources that contributed an offer.
C2_SourcesUsedContributed ==
    (pc = "done" /\ response.kind = "ok") =>
        \A i \in TaskIds :
            (\E k \in 1..Len(response.sources_used) :
                 response.sources_used[k] = sources[i])
            <=> Contribution(i) # <<>>

\* C3: the returned list is never longer than max_results.
C3_AtMostMaxResults ==
    Returns => Len(response.results) <= max_results

C3_Witness ==
    /\ Returns
    /\ Len(Dedup(Merged)) > max_results
    /\ Len(response.results) = max_results

\* C4: the returned offers ascend by price, and offers of equal price keep
\* the order they had in the merged list.
C4_SortedStable ==
    Returns =>
        \A a, b \in 1..Len(response.results) :
            a < b =>
                /\ response.results[a].price <= response.results[b].price
                /\ response.results[a].price = response.results[b].price
                     => FirstWithKey(Merged, response.results[a])
                          < FirstWithKey(Merged, response.results[b])

C4_Witness ==
    /\ Returns
    /\ Len(response.results) >= 2
    /\ response.results[1].price = response.results[2].price
    /\ \E k \in 2..Len(Merged) : Merged[k].price < Merged[k - 1].price

\* C5: no two returned offers share a dedup key, and the offer returned for
\* a key is the first one of the merged list with that key, even when a
\* later one is cheaper.
C5_DedupFirstWins ==
    Returns =>
        /\ \A a, b \in 1..Len(response.results) :
               a # b => KeyOf(response.results[a]) # KeyOf(response.results[b])
        /\ \A a \in 1..Len(response.results) :
               /\ \E k \in 1..Len(Merged) : Merged[k] = response.results[a]
               /\ Merged[FirstWithKey(Merged, response.results[a])]
                    = response.results[a]

C5_Witness ==
    /\ Returns
    /\ \E a \in 1..Len(response.results), k \in 1..Len(Merged) :
          /\ KeyOf(Merged[k]) = KeyOf(response.results[a])
          /\ Merged[k].product_name # response.results[a].product_name
          /\ Merged[k].price < response.results[a].price

\* C6: the order in which the tasks finish does not matter: the merge
\* follows the configured order, so the result is the one computed from the
\* outputs in task order, and of two offers with one key from different
\* tasks the one of the earlier-configured task is retained.
C6_CompletionOrderIrrelevant ==
    Returns =>
        /\ response.results = Truncate(SortByPrice(Dedup(Merged)), max_results)
        /\ \A a \in 1..Len(response.results) :
               \A i \in TaskIds :
                   (\E k \in 1..Len(Contribution(i)) :
                        KeyOf(Contribution(i)[k]) = KeyOf(response.results[a]))
                   => response.results[a].task <= i

C6_Witness ==
    /\ Returns
    /\ order = <<2, 1>>
    /\ \E a \in 1..Len(response.results), k \in 1..Len(Contribution(2)) :
          /\ response.results[a].task = 1
          /\ KeyOf(Contribution(2)[k]) = KeyOf(response.results[a])

\* C7: a region outside the known set ends in the unsupported-region error,
\* with no task started, never in an empty result.
C7_UnknownRegionRejected ==
    (pc = "done" /\ region \notin KnownRegions) =>
        /\ response.kind = "http_400"
        /\ tasks = <<>>

\* C8: search always returns: no source task can block it.
C8_SearchEventuallyReturns == <>(pc = "done")

(***************************************************************************)
(* Properties of the price normalizer.                                     *)
(***************************************************************************)
\* The separator rule as section 4.1 of the specification words it: keep
\* digits, '.' and ','; with both separators the one appearing last is the
\* decimal separator; with only ',' it is the decimal separator exactly
\* when two digits follow it.
RECURSIVE KeepNumeric(_)
KeepNumeric(t) ==
    IF t = <<>> THEN <<>>
    ELSE IF IsDigit(Head(t)) \/ Head(t) \in {",", "."}
         THEN <<Head(t)>> \o KeepNumeric(Tail(t))
         ELSE KeepNumeric(Tail(t))

LastIndexOf(t, c) ==
    IF CountOf(t, c) = 0 THEN 0
    ELSE CHOOSE i \in 1..Len(t) : t[i] = c /\ \A j \in (i + 1)..Len(t) : t[j] # c

SeparatorRule(text) ==
    LET t == KeepNumeric(text)
        comma == LastIndexOf(t, ",")
        dot == LastIndexOf(t, ".")
    IN IF comma > 0 /\ dot > 0
       THEN IF dot > comma
            THEN ParseFloat(Remove(t, ","))
            ELSE ParseFloat(Replace(Remove(t, "."), ",", "."))
       ELSE IF comma > 0
            THEN IF Len(t) - comma = 2
                 THEN ParseFloat(Replace(t, ",", "."))
                 ELSE ParseFloat(Remove(t, ","))
            ELSE IF t = <<>> THEN None ELSE ParseFloat(t)

\* a price text: an optional "$" and one number, grouped the US or the EU
\* way, with nothing else around it
IsNumber(t, sep, dec) ==
    \E m \in NumberMatches(t, 1, sep, dec) :
        NumberEnd(1, m.d, m.k, m.h) = Len(t) + 1

WellFormedPrice(text) ==
    LET t == IF text # <<>> /\ Head(text) = "$" THEN Tail(text) ELSE text
    IN IsNumber(t, ",", ".") \/ IsNumber(t, ".", ",")

\* C10: with no currency hint, the normalizer returns what the separator
\* rule gives on every well-formed price text, among them "$1,049.99",
\* "1.049,99", "49,99" and "1,049".
C10_SeparatorRuleHolds ==
    (ppc = "done" /\ pcurrency = "$" /\ WellFormedPrice(ptext))
        => presult = SeparatorRule(ptext)

(***************************************************************************)
(* Properties of the extraction strategies.                                *)
(***************************************************************************)
GreaterThanZero(price) == price.mant > 0

\* C9: every offer a strategy emits has a price above 0 and a product
\* name of at least 3 characters once trimmed.
C9_EmittedOffersValid ==
    \A k \in 1..Len(xresults) :
        /\ GreaterThanZero(xresults[k].price)
        /\ Len(Strip(xresults[k].product_name)) >= MinNameLen

\* C11: the normalizer returns either no price or a price above 0; text
\* whose value is zero, such as "$0.00", gives no price.
C11_NoneOrPositive ==
    ppc = "done" => (presult = None \/ GreaterThanZero(presult[1]))

(***************************************************************************)
(* Properties of platform identification.                                  *)
(***************************************************************************)
MatchingKeys(label) ==
    {k \in 1..Len(mappings) : Contains(Lower(label), mappings[k].key)}

\* C12: an empty or missing label gives ("unknown", "Unknown"); a label
\* holding no keyword gives ("other", label); otherwise the entry of the
\* first keyword of the table found in the label, whatever its case, so
\* that "Sold by Best Buy" gives ("bestbuy", "Best Buy").
C12_PlatformIdentified ==
    fpc = "done" =>
        /\ (fseller = None \/ fseller = Some(<<>>)) => fplatform = Unknown
        /\ (fseller # None /\ fseller # Some(<<>>)) =>
              LET hits == MatchingKeys(fseller[1]) IN
              IF hits = {}
              THEN fplatform = [pid |-> "other", pname |-> fseller[1]]
              ELSE LET k == CHOOSE k \in hits : \A h \in hits : k <= h
                   IN fplatform = [pid |-> mappings[k].pid,
                                   pname |-> mappings[k].pname]
        /\ fseller = Some(S_SoldByBestBuy) =>
              fplatform = [pid |-> "bestbuy",
                           pname |-> <<"B", "e", "s", "t", " ", "B", "u", "y">>]

\* a label holding two keywords of different platforms, the later one of
\* the table standing first in the label
C12_Witness ==
    /\ fpc = "done"
    /\ fseller = Some(S_WalmartViaAmazon)
    /\ fplatform.pid = "amazon_us"
    /\ Cardinality(MatchingKeys(fseller[1])) = 2

(***************************************************************************)
(* Properties of one source's extraction run.                              *)
(***************************************************************************)
\* the product name as the run compares it: str.lower()
NormalizedName(r) == Lower(r.product_name)

\* C13: the list a source returns never holds two offers of different
\* strategies with the same normalized product name.
C13_NoDuplicateAcrossStrategies ==
    xpc = "done" =>
        \A i, j \in 1..Len(xresults) :
            (i < j /\ xresults[i].strategy # xresults[j].strategy)
                => NormalizedName(xresults[i]) # NormalizedName(xresults[j])

\* C14: a strategy after the first is invoked only when the strategies
\* before it have collected fewer than quota offers.
C14_LaterStrategyOnlyBelowQuota ==
    [][ \A s \in {"selector", "embedded-script"} :
            (s \notin xran /\ s \in xran') => Len(xresults) < xquota ]_vars

\* the offers of a list whose price is a number above 0
PositiveOffers(offers) ==
    {k \in 1..Len(offers) :
        LET p == get_offer_price(offers[k]) IN p # None /\ GreaterThanZero(p[1])}

\* no offer of the list has a positive price below that of offer k
IsLowest(offers, k) ==
    \A h \in PositiveOffers(offers) :
        ~DecLess(get_offer_price(offers[h])[1], get_offer_price(offers[k])[1])

\* the result carries the price, seller, url and availability of offer k;
\* an offer without a url leaves the product's own
EmittedFrom(r, product, k) ==
    LET offer == product.offers[k] IN
    /\ r.price = get_offer_price(offer)[1]
    /\ r.seller = offer.seller
    /\ r.url = (IF offer.url = None THEN product.url ELSE offer.url[1])
    /\ r.in_stock = InStock(offer.availability)

\* C15: a product whose offers are a list with a positive price is emitted
\* with the lowest positive price and the seller, url and availability of
\* that same offer.
C15_LowestOfferPropagated ==
    (/\ xpc = "html"
     /\ Len(xpage.jsonld) = 1
     /\ xpage.jsonld[1].is_dict
     /\ xpage.jsonld[1].type = "Product"
     /\ xpage.jsonld[1].product.offers_type = "list"
     /\ Len(xpage.jsonld[1].product.name) >= MinNameLen
     /\ PositiveOffers(xpage.jsonld[1].product.offers) # {})
    => LET product == xpage.jsonld[1].product IN
       /\ Len(xresults) = 1
       /\ \E k \in PositiveOffers(product.offers) :
              /\ IsLowest(product.offers, k)
              /\ EmittedFrom(xresults[1], product, k)

\* the products of a payload, those inside an ItemList included
ProductsOf(item) ==
    IF ~item.is_dict THEN {}
    ELSE IF item.type = "Product" THEN {item.product}
    ELSE IF item.type = "ItemList"
         THEN {item.elems[k].product : k \in {h \in 1..Len(item.elems) : item.elems[h].is_dict}}
         ELSE {}

Emitted(r) == \E j \in 1..Len(xresults) : xresults[j] = r

\* C16: every well-formed product of the payload is emitted by the
\* structured-data strategy, whatever malformed item or list element stands
\* before or after it.
C16_MalformedItemSkipped ==
    xpc = "html" =>
        \A i \in 1..Len(xpage.jsonld) :
            \A product \in ProductsOf(xpage.jsonld[i]) :
                parse_jsonld_product(product) # <<>>
                    => Emitted(parse_jsonld_product(product)[1])

(***************************************************************************)
(* Properties of the source tasks.                                         *)
(***************************************************************************)
\* the positions of a task between entering its try and its return
InsideTry == {"launch", "goto", "selector", "evaluate", "content", "close"}

\* C17: a source task that ends while fetching or extracting ends with a
\* list of offers, which is empty when the step failed; it hands no
\* exception to the orchestrator.
C17_SourceFailureContained ==
    [][ \A i \in TaskIds :
            (tpc[i] \in InsideTry /\ tpc'[i] = "done")
                => /\ tout'[i].kind = "list"
                   /\ tout'[i].failed => tout'[i].val = <<>> ]_vars

\* search has returned, one source failed while fetching and returned the
\* empty list, another returned offers
C17_Witness ==
    /\ pc = "done"
    /\ \E i, j \in TaskIds :
          /\ tout[i] = Caught
          /\ browser[i] = "killed"
          /\ tout[j].kind = "list" /\ ~tout[j].failed /\ tout[j].val # <<>>

\* the tasks that got a browser from create_stealth_browser
Acquired == {i \in TaskIds : browser[i] # "none"}

\* C18: every browser was launched by the one task that holds it; a task
\* that has finished, by its return or by its except clause, leaves no
\* browser open, and none is open when search returns.
C18_BrowserReleased ==
    /\ launches = Cardinality(Acquired)
    /\ \A i \in TaskIds : tpc[i] = "done" => browser[i] # "open"
    /\ pc = "done" => \A i \in TaskIds : browser[i] \in {"none", "closed", "killed"}

\* search has returned; one task lost its browser on the failure path while
\* another closed its own
C18_Witness ==
    /\ pc = "done"
    /\ launches >= 2
    /\ \E i, j \in TaskIds : browser[i] = "killed" /\ browser[j] = "closed"

(***************************************************************************)
(* Properties of what search drops.                                        *)
(***************************************************************************)
\* an earlier offer in merge order has the dedup key of offer k
Shadowed(k) == \E j \in 1..(k - 1) : KeyOf(Merged[j]) = KeyOf(Merged[k])

Survivors == {k \in 1..Len(Merged) : ~Shadowed(k)}

\* how many deduplicated offers stand before offer k in the stable price
\* order
RankBefore(k) ==
    Cardinality({j \in Survivors :
        \/ Merged[j].price < Merged[k].price
        \/ (Merged[j].price = Merged[k].price /\ j < k)})

Returned_(r) == \E j \in 1..Len(response.results) : response.results[j] = r

\* C19: an offer of a source that did not fail is in the output unless an
\* earlier offer has its dedup key or max_results deduplicated offers rank
\* before it; an omitted deduplicated offer is never cheaper than a
\* returned one, and nothing else is returned.
C19_DroppedOnlyByDedupOrTruncation ==
    Returns =>
        /\ \A k \in 1..Len(Merged) :
              (~Shadowed(k) /\ RankBefore(k) < max_results) => Returned_(Merged[k])
        /\ \A k \in Survivors :
              ~Returned_(Merged[k]) =>
                  \A j \in 1..Len(response.results) :
                      response.results[j].price <= Merged[k].price
        /\ \A j \in 1..Len(response.results) :
              \E k \in Survivors : Merged[k] = response.results[j]

\* search returned a cheaper offer and cut a dearer deduplicated one
C19_Witness ==
    /\ Returns
    /\ \E k \in Survivors :
          /\ ~Returned_(Merged[k])
          /\ RankBefore(k) >= max_results
          /\ \E j \in 1..Len(response.results) :
                response.results[j].price < Merged[k].price

\* the letters outside ASCII that the model's names use
NonAsciiLetters == {"U+00C7", "U+00E7", "U+015E", "U+015F"}

\* a name up to letter case and non-alphanumeric characters, cut to the key
\* prefix: its letters, of any alphabet, and digits, lower-cased
LettersAndDigits(name) ==
    Prefix(SelectSeq(Lower(name),
                     LAMBDA c : c \in LowerAlpha \cup DigitChars \cup NonAsciiLetters),
           KeyPrefixLen)

NameReturned(name) ==
    \E j \in 1..Len(response.results) : response.results[j].product_name = name

\* C20: two offers whose names differ in a letter or digit within the key
\* prefix have different dedup keys, and both names are returned when
\* max_results leaves room for every merged offer.
C20_DistinctNamesDistinctKeys ==
    Returns =>
        \A j, k \in 1..Len(Merged) :
            LettersAndDigits(Merged[j].product_name)
                    # LettersAndDigits(Merged[k].product_name)
                => /\ KeyOf(Merged[j]) # KeyOf(Merged[k])
                   /\ Len(Merged) <= max_results =>
                         /\ NameReturned(Merged[j].product_name)
                         /\ NameReturned(Merged[k].product_name)

====
